---- MODULE Spec2Model ----
(***************************************************************************)
(* Model of the chat server in src/backend/index.js: the room table, the  *)
(* connection-binding table, the per-connection rate limiter, the          *)
(* socket.io room subscriptions, and the five event handlers.              *)
(*                                                                         *)
(* A JavaScript string is a sequence of one-character strings, so that     *)
(* trim(), toLowerCase() and length are computed, not assumed.             *)
(* A JavaScript value is a record [t |-> typeof, s |-> characters].        *)
(***************************************************************************)
EXTENDS Integers, Sequences, FiniteSets, TLC

\* ------------------------------------------------------------------ bounds
MaxTicks == 2
MaxSends == 1
MaxRateSends == 11

\* --------------------------------------------------- constants of index.js
MAX_USERNAME_LENGTH == 20
MIN_USERNAME_LENGTH == 2
MAX_ROOM_LENGTH == 20
MIN_ROOM_LENGTH == 2
MAX_MESSAGE_LENGTH == 500
MESSAGE_RATE_LIMIT == 10
RATE_LIMIT_WINDOW == 5000

\* socket ids
Conns == {"s1", "s2"}

\* ------------------------------------------------------- JavaScript values
Str(chars) == [t |-> "string", s |-> chars]
Undefined == [t |-> "undefined", s |-> <<>>]
Number5 == [t |-> "number", s |-> <<>>]

Repeat(ch, n) == [i \in 1..n |-> ch]

\* !v of JavaScript: undefined and the empty string are falsy, a non-zero
\* number and a non-empty string are truthy
Falsy(v) == v.t = "undefined" \/ (v.t = "string" /\ v.s = <<>>)

IsWhitespace(ch) == ch = " "

\* String.prototype.trim
RECURSIVE firstKept(_, _)
firstKept(s, i) ==
  IF i > Len(s) THEN i ELSE IF IsWhitespace(s[i]) THEN firstKept(s, i + 1) ELSE i

RECURSIVE lastKept(_, _)
lastKept(s, i) ==
  IF i < 1 THEN i ELSE IF IsWhitespace(s[i]) THEN lastKept(s, i - 1) ELSE i

trim(s) == SubSeq(s, firstKept(s, 1), lastKept(s, Len(s)))

lowerChar(ch) ==
  CASE ch = "A" -> "a"
    [] ch = "L" -> "l"
    [] ch = "B" -> "b"
    [] ch = "O" -> "o"
    [] OTHER -> ch

\* String.prototype.toLowerCase
toLowerCase(s) == [i \in 1..Len(s) |-> lowerChar(s[i])]

\* ------------------------------------------------------ validation helpers
validateUsername(username) ==
  IF Falsy(username) \/ username.t # "string" THEN FALSE
  ELSE LET trimmed == trim(username.s)
       IN  Len(trimmed) >= MIN_USERNAME_LENGTH /\ Len(trimmed) <= MAX_USERNAME_LENGTH

\* validateRoom without the upper length bound
validateRoom_noMax(room) ==
  IF Falsy(room) \/ room.t # "string" THEN FALSE
  ELSE Len(trim(room.s)) >= MIN_ROOM_LENGTH

validateRoom(room) ==
  IF Falsy(room) \/ room.t # "string" THEN FALSE
  ELSE LET trimmed == trim(room.s)
       IN  Len(trimmed) >= MIN_ROOM_LENGTH /\ Len(trimmed) <= MAX_ROOM_LENGTH

validateMessage(message) ==
  IF Falsy(message) \/ message.t # "string" THEN FALSE
  ELSE Len(trim(message.s)) > 0 /\ Len(message.s) <= MAX_MESSAGE_LENGTH

\* ------------------------------------------------------------------- state
VARIABLES
  rooms,           \* Map room id -> array of {username, socketId, joinedAt}
  userSockets,     \* Map socket id -> {room, username}
  messageLimiter,  \* Map socket id -> array of timestamps
  adapter,         \* socket.io: socket id -> set of room ids it is subscribed to
  status,          \* per connection: "idle", "open" (connected), "closed"
  now,             \* Date.now()
  outbox,          \* the emissions of the last handler run, in order
  last,            \* the last event processed and its outcome
  admitted,        \* history: the times of every admitted send_message attempt
  epoch,           \* history: Len(admitted[c]) when c's window was last deleted
  ticks            \* number of clock advances so far

vars == <<rooms, userSockets, messageLimiter, adapter, status, now, outbox,
          last, admitted, epoch, ticks>>

\* ------------------------------------------------------------------ inputs
al == <<"a", "l">>
bo == <<"b", "o">>
lo == <<"l", "o">>

NoData ==
  [undef |-> TRUE, room |-> Undefined, username |-> Undefined,
   author |-> Undefined, message |-> Undefined, isTyping |-> FALSE]

JoinData(room, username) ==
  [undef |-> FALSE, room |-> room, username |-> username,
   author |-> Undefined, message |-> Undefined, isTyping |-> FALSE]

SendData(room, author, message) ==
  [undef |-> FALSE, room |-> room, username |-> Undefined,
   author |-> author, message |-> message, isTyping |-> FALSE]

TypingData(room, username, isTyping) ==
  [undef |-> FALSE, room |-> room, username |-> username,
   author |-> Undefined, message |-> Undefined, isTyping |-> isTyping]

ValidRooms == { Str(lo), Str(<<" ">> \o lo) }
BadRooms == { Str(<<"x">>), Str(Repeat("r", MAX_ROOM_LENGTH + 1)), Number5 }

ValidUsernames == { Str(al), Str(<<" ", "A", "L">>), Str(bo) }
BadUsernames == { Str(<<" ", "a">>), Str(Repeat("u", MAX_USERNAME_LENGTH + 1)), Undefined }

JoinPayloads ==
  { JoinData(r, u) : r \in ValidRooms, u \in ValidUsernames }
  \cup { JoinData(r, Str(al)) : r \in BadRooms }
  \cup { JoinData(Str(lo), u) : u \in BadUsernames }
  \cup { NoData }

hi == <<"h", "i">>
BadMessages == { Str(<<" ", " ">>), Str(Repeat("m", MAX_MESSAGE_LENGTH + 1)), Undefined }

SendPayloads ==
  { SendData(r, a, Str(hi)) : r \in ValidRooms, a \in ValidUsernames }
  \cup { SendData(Str(lo), Str(al), Str(<<" ">> \o hi \o <<" ">>)) }
  \cup { SendData(Str(lo), Str(al), m) : m \in BadMessages }
  \cup { SendData(r, Str(al), Str(hi)) : r \in BadRooms }
  \cup { SendData(Str(lo), a, Str(hi)) : a \in BadUsernames }
  \cup { NoData }

TypingPayloads ==
  { TypingData(r, u, TRUE) : r \in ValidRooms, u \in {Str(al), Str(bo)} }
  \cup { TypingData(Str(lo), Str(al), FALSE), TypingData(Str(<<"x">>), Str(al), TRUE),
         NoData }

TickSteps == { 1, RATE_LIMIT_WINDOW - 1 }

\* --------------------------------------------------------------- emissions
\* One emission of a handler: mode "socket" is socket.emit (unicast to the
\* requester), "room" is io.to(room).emit, "others" is socket.to(room).emit.
\* rcpts is the set of connections the transport delivers it to.
NoPayload ==
  [type |-> "", text |-> "", who |-> <<>>, users |-> <<>>, room |-> <<>>,
   author |-> <<>>, message |-> <<>>, timestamp |-> 0, id |-> <<>>, isTyping |-> FALSE]

Emission(mode, from, room, ev, payload, rcpts) ==
  [mode |-> mode, from |-> from, room |-> room, ev |-> ev, payload |-> payload,
   rcpts |-> rcpts]

\* the error sent with io.emit in place of socket.emit
emitError_toAll(c, text) ==
  Emission("socket", c, <<>>, "error", [NoPayload EXCEPT !.text = text], Conns)

\* socket.emit("error", text)
emitError(c, text) ==
  Emission("socket", c, <<>>, "error", [NoPayload EXCEPT !.text = text], {c})

\* the sockets subscribed to a room in the socket.io adapter ad
subscribers(ad, room) == {c \in Conns : room \in ad[c]}

\* io.to(room).emit(ev, payload)
ioTo(ad, c, room, ev, payload) ==
  Emission("room", c, room, ev, payload, subscribers(ad, room))

\* socket.to(room).emit(ev, payload): every subscriber but the sender
socketTo(ad, c, room, ev, payload) ==
  Emission("others", c, room, ev, payload, subscribers(ad, room) \ {c})

\* roomUsers.map(u => ({ username: u.username }))
usernamesOf(users) == [i \in 1..Len(users) |-> users[i].username]

\* ---------------------------------------------------------------- registry
getRoomUsers(rs, room) == IF room \in DOMAIN rs THEN rs[room] ELSE <<>>

userExistsInRoom(rs, room, username) ==
  LET users == getRoomUsers(rs, room)
  IN  \E i \in 1..Len(users) : toLowerCase(users[i].username) = toLowerCase(username)

\* addUserToRoom without the socketId lookup: the member is always pushed
addUserToRoom_rooms_alwaysPush(rs, room, username, socketId) ==
  LET users == IF room \in DOMAIN rs THEN rs[room] ELSE <<>>
      member == [username |-> trim(username), socketId |-> socketId, joinedAt |-> now]
  IN  [k \in DOMAIN rs \cup {room} |-> IF k = room THEN Append(users, member) ELSE rs[k]]

\* the room table after addUserToRoom(room, username, socketId)
addUserToRoom_rooms(rs, room, username, socketId) ==
  LET users == getRoomUsers(rs, room)
      found == \E i \in 1..Len(users) : users[i].socketId = socketId
      member == [username |-> trim(username), socketId |-> socketId, joinedAt |-> now]
  IN  [k \in DOMAIN rs \cup {room} |->
         IF k = room THEN (IF found THEN users ELSE Append(users, member))
         ELSE rs[k]]

\* the binding table after addUserToRoom(room, username, socketId)
addUserToRoom_userSockets(us, room, username, socketId) ==
  [k \in DOMAIN us \cup {socketId} |->
     IF k = socketId THEN [room |-> trim(room), username |-> trim(username)]
     ELSE us[k]]

removeKey(f, key) == [k \in DOMAIN f \ {key} |-> f[k]]

\* removeUserFromRoom without the deletion of a room that became empty
removeUserFromRoom_rooms_keepEmpty(rs, us, socketId) ==
  IF socketId \notin DOMAIN us THEN rs
  ELSE LET room == us[socketId].room
       IN  IF room \notin DOMAIN rs THEN rs
           ELSE [rs EXCEPT ![room] = SelectSeq(rs[room], LAMBDA u : u.socketId # socketId)]

\* the room table after removeUserFromRoom(socketId)
removeUserFromRoom_rooms(rs, us, socketId) ==
  IF socketId \notin DOMAIN us THEN rs
  ELSE LET room == us[socketId].room
       IN  IF room \notin DOMAIN rs THEN rs
           ELSE LET users == SelectSeq(rs[room], LAMBDA u : u.socketId # socketId)
                IN  IF Len(users) = 0 THEN removeKey(rs, room)
                    ELSE [rs EXCEPT ![room] = users]

\* ------------------------------------------------------------ rate limiter
\* the filter with <= in place of <
recentMessages_inclusive(ml, socketId, t) ==
  LET userLimit == IF socketId \in DOMAIN ml THEN ml[socketId] ELSE <<>>
  IN  SelectSeq(userLimit, LAMBDA timestamp : t - timestamp <= RATE_LIMIT_WINDOW)

recentMessages(ml, socketId, t) ==
  LET userLimit == IF socketId \in DOMAIN ml THEN ml[socketId] ELSE <<>>
  IN  SelectSeq(userLimit, LAMBDA timestamp : t - timestamp < RATE_LIMIT_WINDOW)

\* the value checkRateLimit(socketId) returns
checkRateLimit(ml, socketId, t) ==
  ~(Len(recentMessages(ml, socketId, t)) >= MESSAGE_RATE_LIMIT)

\* checkRateLimit recording the attempt before the cap is tested
checkRateLimit_limiter_alwaysRecord(ml, socketId, t) ==
  [k \in DOMAIN ml \cup {socketId} |->
     IF k = socketId THEN Append(recentMessages(ml, socketId, t), t) ELSE ml[k]]

\* the limiter table after checkRateLimit(socketId)
checkRateLimit_limiter(ml, socketId, t) ==
  IF checkRateLimit(ml, socketId, t)
  THEN [k \in DOMAIN ml \cup {socketId} |->
          IF k = socketId THEN Append(recentMessages(ml, socketId, t), t) ELSE ml[k]]
  ELSE ml

\* ------------------------------------------------------------ status query
\* GET /api/rooms
listRooms == { [room |-> r, userCount |-> Len(rooms[r]), users |-> usernamesOf(rooms[r])]
               : r \in DOMAIN rooms }

\* GET /api/health
health == [activeRooms |-> Cardinality(DOMAIN rooms),
           activeUsers |-> Cardinality(DOMAIN userSockets)]

\* -------------------------------------------------------------------- Init
EmptyMap == [k \in {} |-> <<>>]

Event(op, c, data, outcome) == [op |-> op, c |-> c, data |-> data, outcome |-> outcome]

Init ==
  /\ rooms = EmptyMap
  /\ userSockets = EmptyMap
  /\ messageLimiter = EmptyMap
  /\ adapter = [c \in Conns |-> {}]
  /\ status = [c \in Conns |-> "idle"]
  /\ now = 0
  /\ outbox = <<>>
  /\ last = Event("init", "", NoData, "")
  /\ admitted = [c \in Conns |-> <<>>]
  /\ epoch = [c \in Conns |-> 0]
  /\ ticks = 0

\* ---------------------------------------------------------------- handlers
\* io.on("connection"): a new socket, subscribed to no chat room
Connect(c) ==
  /\ status[c] = "idle"
  /\ status' = [status EXCEPT ![c] = "open"]
  /\ outbox' = <<>>
  /\ last' = Event("connection", c, NoData, "connected")
  /\ UNCHANGED <<rooms, userSockets, messageLimiter, adapter, now, admitted, epoch,
                 ticks>>

\* the payload of the join system message
joinMessage(username) ==
  [NoPayload EXCEPT !.type = "system", !.who = username, !.text = "joined the room",
                    !.timestamp = now]

\* the payload of the leave system message
leaveMessage(username) ==
  [NoPayload EXCEPT !.type = "system", !.who = username, !.text = "left the room",
                    !.timestamp = now]

userList(users) == [NoPayload EXCEPT !.users = usernamesOf(users)]

\* the join message sent with io.to(room) in place of socket.to(room)
joinBroadcast_toAll(ad, c, room, username) ==
  ioTo(ad, c, room, "receive_message", joinMessage(username))

\* socket.to(room).emit("receive_message", joinMessage)
joinBroadcast(ad, c, room, username) ==
  socketTo(ad, c, room, "receive_message", joinMessage(username))

\* socket.on("join_room", ...)
JoinRoom(c, data) ==
  /\ status[c] = "open"
  /\ UNCHANGED <<messageLimiter, status, now, admitted, epoch, ticks>>
  /\ IF data.undef
     THEN /\ outbox' = <<emitError(c, "Failed to join room")>>
          /\ last' = Event("join_room", c, data, "fault")
          /\ UNCHANGED <<rooms, userSockets, adapter>>
     ELSE IF ~validateUsername(data.username)
     THEN /\ outbox' = <<emitError(c, "Invalid username. Use 2-20 characters.")>>
          /\ last' = Event("join_room", c, data, "invalid")
          /\ UNCHANGED <<rooms, userSockets, adapter>>
     ELSE IF ~validateRoom(data.room)
     THEN /\ outbox' = <<emitError(c, "Invalid room ID. Use 2-20 characters.")>>
          /\ last' = Event("join_room", c, data, "invalid")
          /\ UNCHANGED <<rooms, userSockets, adapter>>
     ELSE IF userExistsInRoom(rooms, data.room.s, data.username.s)
     THEN /\ outbox' = <<emitError(c, "Username already taken in this room.")>>
          /\ last' = Event("join_room", c, data, "taken")
          /\ UNCHANGED <<rooms, userSockets, adapter>>
     ELSE LET room == data.room.s
              username == data.username.s
              ad == [adapter EXCEPT ![c] = @ \cup {room}]
              rs == addUserToRoom_rooms(rooms, room, username, c)
              roomUsers == getRoomUsers(rs, room)
          IN  /\ adapter' = ad
              /\ rooms' = rs
              /\ userSockets' = addUserToRoom_userSockets(userSockets, room, username, c)
              /\ outbox' = << Emission("socket", c, <<>>, "room_users",
                                       userList(roomUsers), {c}),
                              ioTo(ad, c, room, "user_list_update", userList(roomUsers)),
                              joinBroadcast(ad, c, room, username) >>
              /\ last' = Event("join_room", c, data, "joined")

\* the binding check without the author comparison
authorized_roomOnly(us, c, room, author) ==
  ~(c \notin DOMAIN us \/ us[c].room # room)

\* the binding check of send_message
authorized(us, c, room, author) ==
  ~(c \notin DOMAIN us \/ us[c].room # room \/ us[c].username # author)

\* socket.on("send_message", ...)
SendMessage(c, data) ==
  /\ status[c] = "open"
  /\ UNCHANGED <<rooms, userSockets, adapter, status, now, epoch, ticks>>
  /\ messageLimiter' = checkRateLimit_limiter(messageLimiter, c, now)
  /\ IF ~checkRateLimit(messageLimiter, c, now)
     THEN /\ outbox' = <<emitError(c, "Too many messages. Please slow down.")>>
          /\ last' = Event("send_message", c, data, "ratelimited")
          /\ UNCHANGED admitted
     ELSE /\ admitted' = [admitted EXCEPT ![c] = Append(@, now)]
          /\ IF data.undef
             THEN /\ outbox' = <<emitError(c, "Failed to send message")>>
                  /\ last' = Event("send_message", c, data, "fault")
             ELSE IF ~validateRoom(data.room)
             THEN /\ outbox' = <<emitError(c, "Invalid room")>>
                  /\ last' = Event("send_message", c, data, "invalid")
             ELSE IF ~validateUsername(data.author)
             THEN /\ outbox' = <<emitError(c, "Invalid username")>>
                  /\ last' = Event("send_message", c, data, "invalid")
             ELSE IF ~validateMessage(data.message)
             THEN /\ outbox' = <<emitError(c, "Invalid message")>>
                  /\ last' = Event("send_message", c, data, "invalid")
             ELSE IF ~authorized(userSockets, c, data.room.s, data.author.s)
             THEN /\ outbox' = <<emitError(c, "Unauthorized message")>>
                  /\ last' = Event("send_message", c, data, "unauthorized")
             ELSE LET messageData ==
                        [NoPayload EXCEPT !.type = "user", !.room = data.room.s,
                                          !.author = data.author.s,
                                          !.message = trim(data.message.s),
                                          !.timestamp = now, !.id = <<c, now>>]
                  IN  /\ outbox' = <<ioTo(adapter, c, data.room.s, "receive_message",
                                          messageData)>>
                      /\ last' = Event("send_message", c, data, "sent")

\* socket.on("typing", ...)
Typing(c, data) ==
  /\ status[c] = "open"
  /\ UNCHANGED <<rooms, userSockets, messageLimiter, adapter, status, now, admitted,
                 epoch, ticks>>
  /\ IF data.undef
     THEN /\ outbox' = <<>>
          /\ last' = Event("typing", c, data, "fault")
     ELSE IF ~validateRoom(data.room) \/ ~validateUsername(data.username)
     THEN /\ outbox' = <<>>
          /\ last' = Event("typing", c, data, "invalid")
     ELSE IF c \notin DOMAIN userSockets \/ userSockets[c].room # data.room.s
     THEN /\ outbox' = <<>>
          /\ last' = Event("typing", c, data, "ignored")
     ELSE /\ outbox' = <<socketTo(adapter, c, data.room.s, "user_typing",
                                  [NoPayload EXCEPT !.who = data.username.s,
                                                    !.isTyping = data.isTyping])>>
          /\ last' = Event("typing", c, data, "relayed")

\* socket.on("leave_room", ...)
LeaveRoom(c) ==
  /\ status[c] = "open"
  /\ UNCHANGED <<status, now, admitted, ticks>>
  /\ IF c \in DOMAIN userSockets
     THEN LET room == userSockets[c].room
              username == userSockets[c].username
              ad == [adapter EXCEPT ![c] = @ \ {room}]
              rs == removeUserFromRoom_rooms(rooms, userSockets, c)
              roomUsers == getRoomUsers(rs, room)
          IN  /\ adapter' = ad
              /\ rooms' = rs
              /\ userSockets' = removeKey(userSockets, c)
              /\ messageLimiter' = removeKey(messageLimiter, c)
              /\ epoch' = [epoch EXCEPT ![c] = Len(admitted[c])]
              /\ outbox' = << ioTo(ad, c, room, "receive_message", leaveMessage(username)),
                              ioTo(ad, c, room, "user_list_update", userList(roomUsers)) >>
              /\ last' = Event("leave_room", c, NoData, "left")
     ELSE /\ outbox' = <<>>
          /\ last' = Event("leave_room", c, NoData, "noop")
          /\ UNCHANGED <<rooms, userSockets, messageLimiter, adapter, epoch>>

\* socket.on("disconnect", ...): socket.io has taken the socket out of every
\* room it was subscribed to before the handler runs
Disconnect(c) ==
  /\ status[c] = "open"
  /\ status' = [status EXCEPT ![c] = "closed"]
  /\ adapter' = [adapter EXCEPT ![c] = {}]
  /\ UNCHANGED <<now, admitted, ticks>>
  /\ IF c \in DOMAIN userSockets
     THEN LET room == userSockets[c].room
              username == userSockets[c].username
              ad == [adapter EXCEPT ![c] = {}]
              rs == removeUserFromRoom_rooms(rooms, userSockets, c)
              roomUsers == getRoomUsers(rs, room)
          IN  /\ rooms' = rs
              /\ userSockets' = removeKey(userSockets, c)
              /\ messageLimiter' = removeKey(messageLimiter, c)
              /\ epoch' = [epoch EXCEPT ![c] = Len(admitted[c])]
              /\ outbox' =
                   <<ioTo(ad, c, room, "receive_message", leaveMessage(username))>>
                   \o (IF Len(roomUsers) > 0
                       THEN <<ioTo(ad, c, room, "user_list_update", userList(roomUsers))>>
                       ELSE <<>>)
              /\ last' = Event("disconnect", c, NoData, "left")
     ELSE /\ outbox' = <<>>
          /\ last' = Event("disconnect", c, NoData, "noop")
          /\ UNCHANGED <<rooms, userSockets, messageLimiter, epoch>>

\* the clock Date.now() reads moves forward
Tick(d) ==
  /\ ticks < MaxTicks
  /\ ticks' = ticks + 1
  /\ now' = now + d
  /\ outbox' = <<>>
  /\ last' = Event("tick", "", NoData, "")
  /\ UNCHANGED <<rooms, userSockets, messageLimiter, adapter, status, admitted, epoch>>

\* ---------------------------------------------------------- specifications
\* the number of send_message attempts the limiter has admitted so far
RECURSIVE totalAdmitted(_)
totalAdmitted(cs) ==
  IF cs = {} THEN 0
  ELSE LET c == CHOOSE x \in cs : TRUE
       IN  Len(admitted[c]) + totalAdmitted(cs \ {c})

\* Membership: every sequence of connection, join_room, leave_room and
\* disconnect events of the connections.
Next ==
  \/ \E c \in Conns : Connect(c)
  \/ \E c \in Conns, data \in JoinPayloads : JoinRoom(c, data)
  \/ \E c \in Conns : LeaveRoom(c)
  \/ \E c \in Conns : Disconnect(c)

Spec == Init /\ [][Next]_vars

\* Messaging: the connections join, leave and send up to MaxSends admitted
\* messages.
SendJoinPayloads == { JoinData(r, u) : r \in ValidRooms, u \in {Str(al), Str(bo)} }

NextSend ==
  \/ \E c \in Conns : Connect(c)
  \/ \E c \in Conns, data \in SendJoinPayloads : JoinRoom(c, data)
  \/ \E c \in Conns, data \in SendPayloads :
        totalAdmitted(Conns) < MaxSends /\ SendMessage(c, data)
  \/ \E c \in Conns : LeaveRoom(c)
  \/ \E c \in Conns : Disconnect(c)

SpecSend == Init /\ [][NextSend]_vars

\* Rate limiting: one connection sending until MaxRateSends attempts were
\* admitted, so that the cap is reached, the window elapses, and the
\* connection leaves and joins again.
RateConns == {"s1"}
RateJoinPayloads == { JoinData(Str(lo), Str(al)) }
RateSendPayloads == { SendData(Str(lo), Str(al), Str(hi)), SendData(Str(lo), Str(bo), Str(hi)) }

NextRate ==
  \/ \E c \in RateConns : Connect(c)
  \/ \E c \in RateConns, data \in RateJoinPayloads : JoinRoom(c, data)
  \/ \E c \in RateConns, data \in RateSendPayloads :
        Len(admitted[c]) < MaxRateSends /\ SendMessage(c, data)
  \/ \E c \in RateConns : LeaveRoom(c)
  \/ \E c \in RateConns : Disconnect(c)
  \/ \E d \in TickSteps : Tick(d)

SpecRate == Init /\ [][NextRate]_vars

\* Every handler: the connections join, leave, type and send up to MaxSends
\* admitted messages, with and without a payload.
NextEvents ==
  \/ \E c \in Conns : Connect(c)
  \/ \E c \in Conns, data \in SendJoinPayloads \cup {NoData} : JoinRoom(c, data)
  \/ \E c \in Conns, data \in SendPayloads :
        totalAdmitted(Conns) < MaxSends /\ SendMessage(c, data)
  \/ \E c \in Conns, data \in TypingPayloads : Typing(c, data)
  \/ \E c \in Conns : LeaveRoom(c)
  \/ \E c \in Conns : Disconnect(c)

SpecEvents == Init /\ [][NextEvents]_vars

\* The gates of send_message: one connection sending valid, invalid,
\* unauthorized and payload-less attempts up to and beyond the cap.
GateSendPayloads ==
  { SendData(Str(lo), Str(al), Str(hi)),
    SendData(Str(lo), Str(bo), Str(hi)),
    SendData(Str(<<"x">>), Str(al), Str(hi)),
    SendData(Str(lo), Str(bo), Str(<<" ", " ">>)),
    NoData }

NextGates ==
  \/ \E c \in RateConns : Connect(c)
  \/ \E c \in RateConns, data \in RateJoinPayloads : JoinRoom(c, data)
  \/ \E c \in RateConns, data \in GateSendPayloads :
        Len(admitted[c]) < MaxRateSends /\ SendMessage(c, data)
  \/ \E c \in RateConns : LeaveRoom(c)
  \/ \E c \in RateConns : Disconnect(c)
  \/ \E d \in TickSteps : Tick(d)

SpecGates == Init /\ [][NextGates]_vars

\* ------------------------------------------------------------- properties
\* the connections that have a Member entry in the member list users
memberIds(users) == {users[i].socketId : i \in 1..Len(users)}

\* the rooms of the table in which connection c has a Member entry
memberRooms(c) == {r \in DOMAIN rooms : c \in memberIds(rooms[r])}

\* the connected connections that have a Member entry in room r
openMembers(r) == {c \in memberIds(getRoomUsers(rooms, r)) : status[c] = "open"}

\* the positions of the emissions of event ev in the outbox
emissionsOf(ev) == {i \in 1..Len(outbox) : outbox[i].ev = ev}

Joined == last.op = "join_room" /\ last.outcome = "joined"

\* C1: in every room of the table, no two Member entries have usernames that
\* are equal under case-insensitive comparison.
C1_UsernamesDistinct ==
  \A r \in DOMAIN rooms : \A i, j \in 1..Len(rooms[r]) :
     i # j => toLowerCase(rooms[r][i].username) # toLowerCase(rooms[r][j].username)

\* C2: a connection has a binding if and only if it has a Member entry in
\* exactly the room the binding names and in no other room, and that entry
\* carries the username of the binding.
C2_BindingIffMember ==
  \A c \in Conns :
     IF c \in DOMAIN userSockets
     THEN /\ memberRooms(c) = {userSockets[c].room}
          /\ \A i \in 1..Len(rooms[userSockets[c].room]) :
                rooms[userSockets[c].room][i].socketId = c
                => rooms[userSockets[c].room][i].username = userSockets[c].username
     ELSE memberRooms(c) = {}

\* the send_message just processed carries an author that is not the bound
\* username of its sender, or its sender has no binding
Spoofed ==
  /\ last.op = "send_message"
  /\ \/ last.c \notin DOMAIN userSockets
     \/ last.data.undef
     \/ last.data.author # Str(userSockets[last.c].username)

\* C3: a send_message whose author is not the sender's bound username (or
\* whose sender is unbound) delivers no receive_message to any connection, and
\* when the limiter admits it and its shape is valid, the outbox holds the
\* Unauthorized error for the sender alone and nothing else.
C3_SpoofedNeverBroadcast ==
  Spoofed =>
    /\ \A i \in emissionsOf("receive_message") : outbox[i].rcpts = {}
    /\ ( /\ last.outcome # "ratelimited"
         /\ ~last.data.undef
         /\ validateRoom(last.data.room)
         /\ validateUsername(last.data.author)
         /\ validateMessage(last.data.message) )
       => /\ Len(outbox) = 1
          /\ outbox[1].ev = "error"
          /\ outbox[1].payload.text = "Unauthorized message"
          /\ outbox[1].rcpts = {last.c}

\* C3 witness: a bound connection sent a well-formed message to its own room
\* under another valid username while another connection is subscribed there.
C3_Witness ==
  /\ Spoofed
  /\ last.outcome = "unauthorized"
  /\ last.c \in DOMAIN userSockets
  /\ last.data.room.s = userSockets[last.c].room
  /\ subscribers(adapter, last.data.room.s) \ {last.c} # {}

\* the admitted attempts of history hist made less than RATE_LIMIT_WINDOW ms ago
recentlyAdmitted(hist) ==
  Cardinality({i \in 1..Len(hist) : now - hist[i] < RATE_LIMIT_WINDOW})

\* the admitted attempts of the sender before the send_message just processed
admittedBefore ==
  IF last.outcome = "ratelimited" THEN admitted[last.c]
  ELSE SubSeq(admitted[last.c], 1, Len(admitted[last.c]) - 1)

\* C4 as stated: a send_message attempt is rejected by the rate limiter exactly
\* when 10 attempts of that connection were already admitted less than 5000 ms
\* before it.
C4_RejectedIffTenRecent ==
  last.op = "send_message" =>
    (last.outcome = "ratelimited" <=> recentlyAdmitted(admittedBefore) >= MESSAGE_RATE_LIMIT)

\* C4 counted from the last reset of the window: a send_message attempt is rejected by the rate limiter exactly
\* when 10 attempts of that connection, admitted since its window was last
\* deleted by a leave_room, were admitted less than 5000 ms before it.
C4_RejectedIffTenRecentSinceReset ==
  last.op = "send_message" =>
    (last.outcome = "ratelimited" <=>
       recentlyAdmitted(SubSeq(admittedBefore, epoch[last.c] + 1, Len(admittedBefore)))
         >= MESSAGE_RATE_LIMIT)

\* C4 witness: the 11th attempt inside one window was rejected.
C4_Witness ==
  /\ last.op = "send_message"
  /\ last.outcome = "ratelimited"
  /\ epoch[last.c] = 0
  /\ Len(admitted[last.c]) = MESSAGE_RATE_LIMIT

\* C4 witness of the second half: an attempt was admitted although 10 were
\* admitted before it without a reset, because the window had elapsed.
C4_WitnessElapsed ==
  /\ last.op = "send_message"
  /\ last.outcome # "ratelimited"
  /\ epoch[last.c] = 0
  /\ Len(admitted[last.c]) = MESSAGE_RATE_LIMIT + 1

\* a join_room field that fails the length bounds
failsBounds(v, min, max) ==
  \/ v.t # "string"
  \/ Len(trim(v.s)) < min
  \/ Len(trim(v.s)) > max

\* the join_room payload has a username or a room id that fails its bounds
outOfBounds(data) ==
  /\ ~data.undef
  /\ \/ failsBounds(data.username, MIN_USERNAME_LENGTH, MAX_USERNAME_LENGTH)
     \/ failsBounds(data.room, MIN_ROOM_LENGTH, MAX_ROOM_LENGTH)

\* C5: a join_room whose username or room id fails the length bounds leaves
\* the room table, the binding table and the subscriptions as they were, and
\* emits exactly one error event, to the requester alone.
C5_InvalidJoinNoChange ==
  [][ (last'.op = "join_room" /\ outOfBounds(last'.data))
      => /\ rooms' = rooms
         /\ userSockets' = userSockets
         /\ adapter' = adapter
         /\ Len(outbox') = 1
         /\ outbox'[1].ev = "error"
         /\ outbox'[1].rcpts = {last'.c} ]_vars

\* C5 witness: a join_room with a field out of bounds was processed while
\* another connection is bound to a room.
C5_Witness ==
  /\ last.op = "join_room"
  /\ outOfBounds(last.data)
  /\ \E c \in Conns \ {last.c} : c \in DOMAIN userSockets

\* C6: when a leave_room or a disconnect is processed for the only connection
\* with a Member entry in a room, that room is absent from the room listing.
C6_EmptiedRoomUnlisted ==
  [][ \A r \in DOMAIN rooms :
        ( /\ last'.op \in {"leave_room", "disconnect"}
          /\ memberIds(rooms[r]) = {last'.c} )
        => r \notin {x.room : x \in listRooms'} ]_vars

\* C7: a leave_room or a disconnect performs no user_list_update emission for
\* a room it has emptied.
C7_NoUpdateForEmptiedRoom ==
  last.op \in {"leave_room", "disconnect"} =>
    \A i \in emissionsOf("user_list_update") :
       getRoomUsers(rooms, outbox[i].room) # <<>>

\* C8 as stated: on a successful join_room the room_users event, unicast to
\* the joiner, lists exactly the members the room had before this join.
C8_RoomUsersBeforeJoin ==
  [][ (last'.op = "join_room" /\ last'.outcome = "joined")
      => \E i \in 1..Len(outbox') :
            /\ outbox'[i].ev = "room_users"
            /\ outbox'[i].rcpts = {last'.c}
            /\ outbox'[i].payload.users
                 = usernamesOf(getRoomUsers(rooms, last'.data.room.s)) ]_vars

\* C8 amended: on a successful join_room exactly one room_users event is
\* emitted, to the joiner alone, and it lists the members of the room after
\* this join in join order: the members the room (under the room id as
\* submitted) had before, followed by the joiner's trimmed username unless the
\* connection already had a Member entry in that room.
C8_RoomUsersAfterJoin ==
  [][ (last'.op = "join_room" /\ last'.outcome = "joined")
      => LET before == getRoomUsers(rooms, last'.data.room.s)
             expected ==
               usernamesOf(before) \o
                 (IF last'.c \in memberIds(before) THEN <<>>
                  ELSE <<trim(last'.data.username.s)>>)
         IN  /\ Cardinality({i \in 1..Len(outbox') : outbox'[i].ev = "room_users"}) = 1
             /\ \A i \in 1..Len(outbox') :
                   outbox'[i].ev = "room_users"
                   => /\ outbox'[i].rcpts = {last'.c}
                      /\ outbox'[i].payload.users = expected ]_vars

\* C8 witness: bo joined a room that held only al and was sent [al, bo].
C8_Witness ==
  /\ Joined
  /\ \E i \in emissionsOf("room_users") : outbox[i].payload.users = <<al, bo>>
  /\ Len(rooms[last.data.room.s]) = 2
  /\ rooms[last.data.room.s][2].socketId = last.c

\* C9: after a successful join_room one user_list_update is emitted, after the
\* room_users event, to every connected member of the room, the joiner
\* included, and lists the room's member list in join order with the joiner
\* last.
C9_UserListUpdateJoinerLast ==
  Joined =>
    LET users == rooms[last.data.room.s]
    IN  /\ Cardinality(emissionsOf("user_list_update")) = 1
        /\ \A i \in emissionsOf("user_list_update") :
              /\ outbox[i].payload.users = usernamesOf(users)
              /\ openMembers(last.data.room.s) \subseteq outbox[i].rcpts
              /\ last.c \in outbox[i].rcpts
              /\ \E j \in emissionsOf("room_users") : j < i
        /\ users[Len(users)].socketId = last.c
        /\ users[Len(users)].username = trim(last.data.username.s)

\* C10: after a successful join_room the system message "<username> joined
\* the room" is delivered to every other connected member of the room and is
\* not delivered to the joiner.
C10_JoinMessageToOthers ==
  Joined =>
    /\ Cardinality(emissionsOf("receive_message")) = 1
    /\ \A i \in emissionsOf("receive_message") :
          /\ outbox[i].payload.type = "system"
          /\ outbox[i].payload.who = last.data.username.s
          /\ outbox[i].payload.text = "joined the room"
          /\ openMembers(last.data.room.s) \ {last.c} \subseteq outbox[i].rcpts
          /\ last.c \notin outbox[i].rcpts

\* C10 witness: a join whose join message was delivered to another member.
C10_Witness ==
  /\ Joined
  /\ \E i \in emissionsOf("receive_message") :
        /\ outbox[i].rcpts # {}
        /\ outbox[i].rcpts = openMembers(last.data.room.s) \ {last.c}

\* C11: a send_message that the limiter admits, that passes shape validation
\* and that matches the sender's binding emits exactly one receive_message of
\* type "user", with the bound author and the trimmed text, delivered to every
\* connected member of that room and to the sender.
C11_UserMessageToAllMembers ==
  (last.op = "send_message" /\ last.outcome = "sent") =>
    /\ Len(outbox) = 1
    /\ outbox[1].ev = "receive_message"
    /\ outbox[1].payload.type = "user"
    /\ outbox[1].payload.author = userSockets[last.c].username
    /\ outbox[1].payload.message = trim(last.data.message.s)
    /\ openMembers(last.data.room.s) \subseteq outbox[1].rcpts
    /\ last.c \in outbox[1].rcpts

\* C12: a join_room from a connection that already has a binding is rejected:
\* the requester gets an error event, and the room table, the binding table
\* and the subscriptions are unchanged.
C12_BoundJoinRejected ==
  [][ (last'.op = "join_room" /\ last'.c \in DOMAIN userSockets)
      => /\ rooms' = rooms
         /\ userSockets' = userSockets
         /\ adapter' = adapter
         /\ Len(outbox') = 1
         /\ outbox'[1].ev = "error"
         /\ outbox'[1].rcpts = {last'.c} ]_vars

\* C13: a typing event is relayed only when the sender's binding equals both
\* the room and the username of the event; otherwise nothing is emitted, and
\* no error in any case. When relayed, user_typing reaches every other
\* connected member of the room and not the sender.
C13_TypingOnlyForOwnBinding ==
  last.op = "typing" =>
    /\ emissionsOf("error") = {}
    /\ outbox # <<>> =>
         /\ last.c \in DOMAIN userSockets
         /\ userSockets[last.c].room = last.data.room.s
         /\ userSockets[last.c].username = last.data.username.s
    /\ \A i \in 1..Len(outbox) :
          /\ outbox[i].ev = "user_typing"
          /\ openMembers(last.data.room.s) \ {last.c} \subseteq outbox[i].rcpts
          /\ last.c \notin outbox[i].rcpts

\* C14: every room present in the room table has at least one Member entry.
C14_NoEmptyRoom ==
  \A r \in DOMAIN rooms : Len(rooms[r]) >= 1

\* C14 witness: a leave_room or a disconnect took the last member out of its
\* room, the room is gone from the table, and another room is still there.
C14_Witness ==
  /\ last.op \in {"leave_room", "disconnect"}
  /\ last.outcome = "left"
  /\ outbox[1].room \notin DOMAIN rooms
  /\ DOMAIN rooms # {}

\* C15: once the disconnect of a connection has been processed, no rate-limit
\* window of that connection remains.
C15_NoWindowAfterDisconnect ==
  \A c \in Conns : status[c] = "closed" => c \notin DOMAIN messageLimiter

\* the room ids that occur as a key of the room table or in a subscription
knownRooms == DOMAIN rooms \cup UNION {adapter[c] : c \in Conns}

\* C17: the subscribers of a room and the connections with a Member entry in
\* it are the same set, and every room-wide emission is sent to exactly the
\* connections with a Member entry in its room (minus the sender where the
\* sender is excluded).
C17_FanOutEqualsRegistry ==
  /\ \A r \in knownRooms :
        subscribers(adapter, r) = memberIds(getRoomUsers(rooms, r))
  /\ \A i \in 1..Len(outbox) :
        /\ outbox[i].mode = "room" =>
             outbox[i].rcpts = memberIds(getRoomUsers(rooms, outbox[i].room))
        /\ outbox[i].mode = "others" =>
             outbox[i].rcpts = memberIds(getRoomUsers(rooms, outbox[i].room)) \ {outbox[i].from}

\* the stored window of connection c
windowOf(c) == IF c \in DOMAIN messageLimiter THEN messageLimiter[c] ELSE <<>>

\* the entries of the stored window of c that are less than RATE_LIMIT_WINDOW old
recentInWindow(c) ==
  Cardinality({i \in 1..Len(windowOf(c)) : now - windowOf(c)[i] < RATE_LIMIT_WINDOW})

\* the payload passes the shape validation of send_message
shapeValid(data) ==
  /\ ~data.undef
  /\ validateRoom(data.room)
  /\ validateUsername(data.author)
  /\ validateMessage(data.message)

\* the binding of connection c equals the room and the author of the payload
bindingMatches(c, data) ==
  /\ c \in DOMAIN userSockets
  /\ Str(userSockets[c].room) = data.room
  /\ Str(userSockets[c].username) = data.author

\* C18: the gates of send_message run in the order rate limiter, shape
\* validation, binding check and the first failing gate decides: at the cap the
\* only emission is the rate-limit error and the window is left as it was;
\* below the cap the attempt takes one slot of the window whatever follows, an
\* invalid shape yields an Invalid... error and not Unauthorized, and a valid
\* shape with a binding mismatch yields Unauthorized.
C18_GateOrder ==
  [][ last'.op = "send_message" =>
      LET c == last'.c
          data == last'.data
      IN  /\ Len(outbox') = 1
          /\ IF recentInWindow(c) >= MESSAGE_RATE_LIMIT
             THEN /\ outbox'[1] = emitError(c, "Too many messages. Please slow down.")
                  /\ messageLimiter' = messageLimiter
             ELSE /\ c \in DOMAIN messageLimiter'
                  /\ Len(messageLimiter'[c]) = recentInWindow(c) + 1
                  /\ messageLimiter'[c][Len(messageLimiter'[c])] = now
                  /\ outbox'[1].payload.text # "Too many messages. Please slow down."
                  /\ (~data.undef /\ ~shapeValid(data)) =>
                        /\ outbox'[1].ev = "error"
                        /\ outbox'[1].payload.text \in
                             {"Invalid room", "Invalid username", "Invalid message"}
                  /\ (shapeValid(data) /\ ~bindingMatches(c, data)) =>
                        outbox'[1] = emitError(c, "Unauthorized message")
                  /\ (shapeValid(data) /\ bindingMatches(c, data)) =>
                        outbox'[1].ev = "receive_message" ]_vars

\* C18 witness: at the cap, an attempt with an invalid message and a foreign
\* author got the rate-limit error.
C18_Witness ==
  /\ last.op = "send_message"
  /\ last.outcome = "ratelimited"
  /\ ~last.data.undef
  /\ ~validateMessage(last.data.message)
  /\ Len(windowOf(last.c)) = MESSAGE_RATE_LIMIT

\* C18 witness below the cap: an attempt with an invalid message and a foreign
\* author was refused for its shape and took a slot of the window.
C18_WitnessSlot ==
  /\ last.op = "send_message"
  /\ last.outcome = "invalid"
  /\ ~bindingMatches(last.c, last.data)
  /\ Len(windowOf(last.c)) > 1

\* the connected connections other than c with a Member entry in room r
remainingAfter(c, r) == openMembers(r) \ {c}

\* C19: when a bound connection issues leave_room and other members remain in
\* a room it is a member of, each of them is sent the system message
\* "<username> left the room" and then a user_list_update listing exactly the
\* remaining members; the leaving connection is sent neither, ends unbound and
\* without a Member entry, so that a following join_room is accepted.
C19_LeaveNotifiesRemaining ==
  [][ \A r \in memberRooms(last'.c) :
        ( /\ last'.op = "leave_room"
          /\ last'.c \in DOMAIN userSockets
          /\ remainingAfter(last'.c, r) # {} )
        => /\ last'.c \notin DOMAIN userSockets'
           /\ \A q \in DOMAIN rooms' : last'.c \notin memberIds(rooms'[q])
           /\ \E i, j \in 1..Len(outbox') :
                 /\ i < j
                 /\ outbox'[i].ev = "receive_message"
                 /\ outbox'[i].payload.type = "system"
                 /\ outbox'[i].payload.who = userSockets[last'.c].username
                 /\ outbox'[i].payload.text = "left the room"
                 /\ outbox'[i].rcpts = remainingAfter(last'.c, r)
                 /\ outbox'[j].ev = "user_list_update"
                 /\ outbox'[j].rcpts = remainingAfter(last'.c, r)
                 /\ outbox'[j].payload.users
                      = usernamesOf(SelectSeq(rooms[r], LAMBDA u : u.socketId # last'.c)) ]_vars

\* the handler run of the step hits an internal fault: the event came without
\* a payload and the handler got as far as reading its fields
faultRun ==
  /\ last'.data.undef
  /\ \/ last'.op \in {"join_room", "typing"}
     \/ last'.op = "send_message" /\ recentInWindow(last'.c) < MESSAGE_RATE_LIMIT

\* the step changes no table, no subscription and no connection
serverUntouched ==
  /\ rooms' = rooms
  /\ userSockets' = userSockets
  /\ adapter' = adapter
  /\ status' = status

Sent == last.op = "send_message" /\ last.outcome = "sent"

\* C21: two distinct user messages broadcast by the server carry different
\* ids. Stated for two messages broadcast one right after the other, which
\* includes two messages of one connection at the same clock reading.
C21_MessageIdsDiffer ==
  [][ (Sent /\ Sent') => outbox'[1].payload.id # outbox[1].payload.id ]_vars

\* C22: once the disconnect of a connection has been processed, no member
\* list holds an entry for it and it has no binding; hence when no connection
\* is connected any more, the room table and the binding table are empty.
C22_NothingLeftAfterDisconnect ==
  /\ \A c \in Conns :
        status[c] = "closed" => (c \notin DOMAIN userSockets /\ memberRooms(c) = {})
  /\ (\A c \in Conns : status[c] # "open") =>
        (health.activeRooms = 0 /\ health.activeUsers = 0)

\* the admitted attempts of history hist made less than RATE_LIMIT_WINDOW ms
\* after its i-th one, that one included
admittedInSpanFrom(hist, i) ==
  Cardinality({j \in i..Len(hist) : hist[j] - hist[i] < RATE_LIMIT_WINDOW})

\* C23: over every sequence of events of a connection, leave_room followed by
\* a new join_room included, the rate limiter admits no more than 10
\* send_message attempts of that connection within any span of 5000 ms.
C23_AtMostTenPerSpan ==
  \A c \in Conns : \A i \in 1..Len(admitted[c]) :
     admittedInSpanFrom(admitted[c], i) <= MESSAGE_RATE_LIMIT

\* connection c has an entry under username name in the member list of room
\* in the room table rs
isMemberAs(rs, room, c, name) ==
  \E k \in 1..Len(getRoomUsers(rs, room)) :
     /\ getRoomUsers(rs, room)[k].socketId = c
     /\ getRoomUsers(rs, room)[k].username = name

\* C24: every user message and every "left the room" system message delivered
\* to connections of a room R comes from a connection that, when the server
\* processed the triggering event, had an entry in R's member list under the
\* username the message announces.
C24_DeliveredOnlyFromMembers ==
  [][ \A i \in 1..Len(outbox') :
        ( /\ outbox'[i].ev = "receive_message"
          /\ outbox'[i].rcpts # {}
          /\ \/ outbox'[i].payload.type = "user"
             \/ outbox'[i].payload.text = "left the room" )
        => isMemberAs(rooms, outbox'[i].room, last'.c,
                      IF outbox'[i].payload.type = "user"
                      THEN outbox'[i].payload.author
                      ELSE outbox'[i].payload.who) ]_vars

====
